---- MODULE Spec2Model ----
(***************************************************************************)
(* Model of src/index.ts: the Stargate refund-address override demo.       *)
(*                                                                         *)
(* main() fetches a quote, keeps the "stargate/" routes and walks them in  *)
(* order.  For each route it classifies the steps by function selector,    *)
(* sends the approval step (if any) and waits for it, decodes the send()   *)
(* calldata, re-encodes it with the hard-coded refund address, decodes the *)
(* result again for display, sends the transaction and waits for the       *)
(* receipt.  Every await of main() is a position of pc.                    *)
(*                                                                         *)
(* Scaling.  An ABI word is WordBytes bytes (32 in the EVM) and a byte is  *)
(* a digit 0..MaxByte (0..255 in the EVM).  A uint256 fills a word, a      *)
(* uint32 the lowest byte of a word, an address all bytes but the highest. *)
(* Call data is a selector (the first ten characters of the hex string)    *)
(* followed by a flat byte sequence.                                       *)
(*                                                                         *)
(* The codec.  encodeStargateCalldata and decodeStargateCalldata wrap      *)
(* encodeFunctionData and decodeFunctionData of viem, whose code is not in *)
(* src/.  The two are modelled from the wire format of the specification   *)
(* (section 6: big-endian words, a dynamic tuple of seven fields, a tuple  *)
(* of two, an address word; byte strings length-prefixed and right-padded) *)
(* and its decoder contract (section 4.1).                                 *)
(*                                                                         *)
(* The quote list is immutable and each route is read exactly once, by the *)
(* loop iteration that processes it: the model draws the names of the      *)
(* routes when the quote arrives and the steps of a route when the         *)
(* iterator yields it.                                                     *)
(*                                                                         *)
(* Specifications.  Spec is main(); FairSpec is Spec with every await      *)
(* eventually resumed; SpecClassify is the classification scan on longer   *)
(* step lists; SpecCodec is encodeStargateCalldata and                     *)
(* decodeStargateCalldata on their own inputs.                             *)
(***************************************************************************)
EXTENDS Integers, Sequences, FiniteSets, TLC

\* ------------------------------------------------------------------ bounds
\* Largest value of one byte of call data (255, scaled).
MaxByte == 3
\* Bytes in one ABI word (32, scaled).
WordBytes == 3
\* Most routes in one quote response.
MaxQuotes == 2
\* Most steps in one route of the main loop.
MaxSteps == 2
\* Most steps in a route of the classification specification.
MaxScanSteps == 4
\* Longest extraOptions, composeMsg or oftCmd of the codec specification.
MaxBytesLen == 4

Base == MaxByte + 1
WordMax == (Base ^ WordBytes) - 1
Uint32Max == Base - 1
AddressMod == Base ^ (WordBytes - 1)

\* ------------------------------------------------------------- selectors
ApproveSelector == "0x095ea7b3"
SendSelector == "0xc7c7f5b3"
OtherSelector == "0xa9059cbb"

\* ------------------------------------------------------------- addresses
\* An address string: its 20-byte value and its letter case (the decoder
\* returns EIP-55 checksummed strings, the literal in main is lower case).
toLowerCase(a) == [a EXCEPT !.case = "lower"]
checksumAddress(n) == [hex |-> n, case |-> "checksum"]
customRefundAddress == [hex |-> AddressMod - 3, case |-> "lower"]

\* ------------------------------------------------------------ byte codec
Zeros(n) == [i \in 1..n |-> 0]

RECURSIVE bytesToNumber(_)
bytesToNumber(bs) ==
  IF bs = <<>> THEN 0
  ELSE bytesToNumber(SubSeq(bs, 1, Len(bs) - 1)) * Base + bs[Len(bs)]

RECURSIVE numberToBytes(_, _)
numberToBytes(n, size) ==
  IF size = 0 THEN <<>>
  ELSE Append(numberToBytes(n \div Base, size - 1), n % Base)

encodeWord(n) == numberToBytes(n, WordBytes)

\* A dynamic bytes value: its length word, then the bytes right-padded with
\* zeros to a whole number of words.
encodeBytes(bs) ==
  encodeWord(Len(bs)) \o bs \o Zeros((WordBytes - (Len(bs) % WordBytes)) % WordBytes)

\* A read of len bytes at pos is in bounds, or the call data is malformed.
canRead(body, pos, len) == pos >= 0 /\ pos + len <= Len(body)
readBytes(body, pos, len) == SubSeq(body, pos + 1, pos + len)
readWord(body, pos) == bytesToNumber(readBytes(body, pos, WordBytes))

\* A bytes component of the tuple that starts at start, whose offset word is
\* at headPos: [ok, val].
decodeBytesFromBodyStart(body, start, headPos) ==
  IF ~canRead(body, headPos, WordBytes) THEN [ok |-> FALSE]
  ELSE LET p == readWord(body, headPos) IN
    IF ~canRead(body, p, WordBytes) THEN [ok |-> FALSE]
    ELSE LET len == readWord(body, p) IN
      IF len = 0 THEN [ok |-> TRUE, val |-> <<>>]
      ELSE IF ~canRead(body, p + WordBytes, len) THEN [ok |-> FALSE]
      ELSE [ok |-> TRUE, val |-> readBytes(body, p + WordBytes, len)]
decodeBytes(body, start, headPos) ==
  IF ~canRead(body, headPos, WordBytes) THEN [ok |-> FALSE]
  ELSE LET p == start + readWord(body, headPos) IN
    IF ~canRead(body, p, WordBytes) THEN [ok |-> FALSE]
    ELSE LET len == readWord(body, p) IN
      IF len = 0 THEN [ok |-> TRUE, val |-> <<>>]
      ELSE IF ~canRead(body, p + WordBytes, len) THEN [ok |-> FALSE]
      ELSE [ok |-> TRUE, val |-> readBytes(body, p + WordBytes, len)]

\* The two ways the decoder fails: the discriminator is not that of send(),
\* or the bytes behind it do not have the declared shape.
SelectorMismatch == [ok |-> FALSE, kind |-> "SelectorMismatch"]
Malformed == [ok |-> FALSE, kind |-> "Malformed"]

\* decodeFunctionData for the send() ABI.  The discriminator is looked up
\* before any byte of the body is read.
decodeFunctionData(data) ==
  LET body == data.body
      W == WordBytes IN
  IF data.selector # SendSelector THEN SelectorMismatch
  ELSE IF Len(body) < W THEN Malformed
  ELSE LET start == readWord(body, 0) IN
    IF ~canRead(body, start, 4 * W) \/ ~canRead(body, 0, 4 * W) THEN Malformed
    ELSE LET extraOptions == decodeBytes(body, start, start + 4 * W)
             composeMsg == decodeBytes(body, start, start + 5 * W)
             oftCmd == decodeBytes(body, start, start + 6 * W) IN
      IF ~extraOptions.ok \/ ~composeMsg.ok \/ ~oftCmd.ok THEN Malformed
      ELSE [ok |-> TRUE,
            sendParam |-> [dstEid |-> readWord(body, start),
                           to |-> readWord(body, start + W),
                           amountLD |-> readWord(body, start + 2 * W),
                           minAmountLD |-> readWord(body, start + 3 * W),
                           extraOptions |-> extraOptions.val,
                           composeMsg |-> composeMsg.val,
                           oftCmd |-> oftCmd.val],
            fee |-> [nativeFee |-> readWord(body, W),
                     lzTokenFee |-> readWord(body, 2 * W)],
            refundAddress |-> checksumAddress(readWord(body, 3 * W) % AddressMod)]

\* encodeFunctionData for the send() ABI: an integer out of the range of its
\* type throws.
encodeFunctionData(sendParam, fee, refundAddress) ==
  LET W == WordBytes
      e1 == encodeBytes(sendParam.extraOptions)
      e2 == encodeBytes(sendParam.composeMsg)
      e3 == encodeBytes(sendParam.oftCmd)
      tuple == encodeWord(sendParam.dstEid) \o encodeWord(sendParam.to)
               \o encodeWord(sendParam.amountLD) \o encodeWord(sendParam.minAmountLD)
               \o encodeWord(7 * W) \o encodeWord(7 * W + Len(e1))
               \o encodeWord(7 * W + Len(e1) + Len(e2))
               \o e1 \o e2 \o e3
      head == encodeWord(4 * W) \o encodeWord(fee.nativeFee)
              \o encodeWord(fee.lzTokenFee) \o encodeWord(refundAddress.hex) IN
  IF \/ sendParam.dstEid > Uint32Max
     \/ sendParam.to > WordMax
     \/ sendParam.amountLD > WordMax \/ sendParam.minAmountLD > WordMax
     \/ fee.nativeFee > WordMax \/ fee.lzTokenFee > WordMax
     \/ refundAddress.hex >= AddressMod
  THEN [ok |-> FALSE]
  ELSE [ok |-> TRUE, data |-> [selector |-> SendSelector, body |-> head \o tuple]]

\* encodeStargateCalldata.
encodeStargateCalldataSwapsFee(sendParam, fee, refundAddress) ==
  encodeFunctionData(sendParam,
                     [nativeFee |-> fee.lzTokenFee, lzTokenFee |-> fee.nativeFee],
                     refundAddress)
encodeStargateCalldata(sendParam, fee, refundAddress) ==
  encodeFunctionData(sendParam, fee, refundAddress)

\* StringToBigInt, the conversion behind BigInt(string).  A string is the
\* sequence of its UTF-16 code units.  White space and line terminators around
\* the literal are dropped and what is left is empty (zero), a 0x, 0b or 0o
\* literal without sign, or decimal digits after an optional sign; any other
\* string throws a SyntaxError.
\* The code units of StrWhiteSpaceChar: TAB, LF, VT, FF, CR, SP, NBSP, the
\* other space separators (Zs), LS, PS and ZWNBSP.
WhiteSpace ==
  {9, 10, 11, 12, 13, 32, 160, 5760} \cup (8192..8202)
    \cup {8232, 8233, 8239, 8287, 12288, 65279}
\* The value of a digit character ('0'..'9', 'a'..'f', 'A'..'F'), 16 for a
\* character that is no digit.
digitOf(c) ==
  IF c \in 48..57 THEN c - 48
  ELSE IF c \in 97..102 THEN c - 87
  ELSE IF c \in 65..70 THEN c - 55
  ELSE 16
RECURSIVE trimStart(_)
trimStart(s) ==
  IF s # <<>> /\ s[1] \in WhiteSpace THEN trimStart(Tail(s)) ELSE s
RECURSIVE trimEnd(_)
trimEnd(s) ==
  IF s # <<>> /\ s[Len(s)] \in WhiteSpace
  THEN trimEnd(SubSeq(s, 1, Len(s) - 1))
  ELSE s
RECURSIVE radixValue(_, _)
radixValue(digits, radix) ==
  IF digits = <<>> THEN 0
  ELSE radixValue(SubSeq(digits, 1, Len(digits) - 1), radix) * radix
       + digitOf(digits[Len(digits)])
\* [ok, val] for the digits of a literal in a radix: at least one digit, and
\* every character a digit of the radix.
parseDigits(digits, radix, negative) ==
  IF digits = <<>> \/ \E k \in 1..Len(digits) : digitOf(digits[k]) >= radix
  THEN [ok |-> FALSE]
  ELSE [ok |-> TRUE,
        val |-> IF negative THEN 0 - radixValue(digits, radix)
                ELSE radixValue(digits, radix)]
\* 48 is '0'; 120, 88 are 'x', 'X'; 111, 79 are 'o', 'O'; 98, 66 are 'b', 'B';
\* 43 is '+' and 45 is '-'.
StringToBigInt(string) ==
  LET s == trimEnd(trimStart(string)) IN
  IF s = <<>> THEN [ok |-> TRUE, val |-> 0]
  ELSE IF Len(s) >= 2 /\ s[1] = 48 /\ s[2] \in {120, 88}
  THEN parseDigits(SubSeq(s, 3, Len(s)), 16, FALSE)
  ELSE IF Len(s) >= 2 /\ s[1] = 48 /\ s[2] \in {111, 79}
  THEN parseDigits(SubSeq(s, 3, Len(s)), 8, FALSE)
  ELSE IF Len(s) >= 2 /\ s[1] = 48 /\ s[2] \in {98, 66}
  THEN parseDigits(SubSeq(s, 3, Len(s)), 2, FALSE)
  ELSE IF s[1] \in {43, 45}
  THEN parseDigits(Tail(s), 10, s[1] = 45)
  ELSE parseDigits(s, 10, FALSE)

\* ------------------------------------------------------- quotes and steps
\* Route names as path segments: "stargate/v2/taxi" is <<"stargate","v2","taxi">>.
RouteNames == {<<"stargate", "v2", "taxi">>, <<"auri">>}

\* String.startsWith("stargate/"): the first segment, followed by a slash.
startsWithAnything(route) == Len(route) > 0
startsWithStargate(route) == Len(route) >= 2 /\ route[1] = "stargate"

\* A step without call data (transaction.data undefined or empty).
NoData == [selector |-> "", body |-> <<>>]

\* The send() arguments quoted for the step at position i of a route: word-size
\* and zero integers, empty and non-empty byte strings.
QuotedRefund == checksumAddress(1)
QuotedCall(i) ==
  [sendParam |-> [dstEid |-> i % Base,
                  to |-> WordMax - i,
                  amountLD |-> WordMax,
                  minAmountLD |-> 0,
                  extraOptions |-> IF i % 2 = 0 THEN <<1, 2>> ELSE <<>>,
                  composeMsg |-> <<>>,
                  oftCmd |-> IF i % 2 = 0 THEN <<i % Base>> ELSE <<>>],
   fee |-> [nativeFee |-> i, lzTokenFee |-> 0]]

QuotedCalldata(i, refund) ==
  encodeFunctionData(QuotedCall(i).sendParam, QuotedCall(i).fee, refund).data

StepKinds == {"approve", "send", "sendSame", "sendNaN", "bad", "dirty", "dirtySame",
              "other", "nodata"}

\* The step of a kind at position i (from 1) of a route.  Steps of one kind at
\* different positions differ in call data, target and value.
\*   bad:   the send selector on a body cut short (the decoder throws);
\*   dirty: a dstEid word above the uint32 range (the encoder throws);
\*   dirtySame: the same, with the custom refund address already in place;
\*   sendNaN: the value string "1.5" (BigInt throws), with the quoted
\*            refund address at odd positions and the custom one at even ones.
\* The value of a send step is a decimal string ("11"), alone at odd positions
\* and between a form feed and a blank at even ones; that of a sendSame step
\* is a hexadecimal literal ("0x21") at odd positions and a negative decimal
\* string ("-22") at even ones; the other values are one decimal digit.
MkStep(kind, i) ==
  LET good == QuotedCalldata(i, QuotedRefund) IN
  CASE kind = "approve" ->
         [type |-> "approve", to |-> checksumAddress(i),
          value |-> <<48>>,
          data |-> [selector |-> ApproveSelector, body |-> encodeWord(i)]]
    [] kind = "send" ->
         [type |-> "bridge", to |-> checksumAddress(AddressMod - i),
          value |-> IF i % 2 = 1 THEN <<49, 48 + (i % 10)>>
                    ELSE <<12, 49, 48 + (i % 10), 32>>,
          data |-> good]
    [] kind = "sendSame" ->
         [type |-> "bridge", to |-> checksumAddress(AddressMod - i),
          value |-> IF i % 2 = 1 THEN <<48, 120, 50, 48 + (i % 10)>>
                    ELSE <<45, 50, 48 + (i % 10)>>,
          data |-> QuotedCalldata(i, customRefundAddress)]
    [] kind = "sendNaN" ->
         [type |-> "bridge", to |-> checksumAddress(AddressMod - i),
          value |-> <<49, 46, 53>>,
          data |-> IF i % 2 = 1 THEN good
                   ELSE QuotedCalldata(i, customRefundAddress)]
    [] kind = "bad" ->
         [type |-> "bridge", to |-> checksumAddress(AddressMod - i),
          value |-> <<51>>,
          data |-> [good EXCEPT !.body = SubSeq(good.body, 1, Len(good.body) - WordBytes)]]
    [] kind = "dirty" ->
         [type |-> "bridge", to |-> checksumAddress(AddressMod - i),
          value |-> <<52>>,
          data |-> [good EXCEPT !.body[4 * WordBytes + 1] = 1]]
    [] kind = "dirtySame" ->
         [type |-> "bridge", to |-> checksumAddress(AddressMod - i),
          value |-> <<53>>,
          data |-> [QuotedCalldata(i, customRefundAddress)
                      EXCEPT !.body[4 * WordBytes + 1] = 1]]
    [] kind = "other" ->
         [type |-> "transfer", to |-> checksumAddress(i),
          value |-> <<48>>,
          data |-> [selector |-> OtherSelector, body |-> encodeWord(i)]]
    [] kind = "nodata" ->
         [type |-> "wait", to |-> checksumAddress(i), value |-> <<48>>, data |-> NoData]

KindSeqs(n) == UNION {[1..m -> StepKinds] : m \in 0..n}
MkSteps(kinds) == [i \in 1..Len(kinds) |-> MkStep(kinds[i], i)]
StepLists(n) == {MkSteps(kinds) : kinds \in KindSeqs(n)}
QuoteLists == UNION {[1..m -> RouteNames] : m \in 0..MaxQuotes}
\* The step lists a route of the main loop is drawn from.
RouteStepLists == StepLists(MaxSteps)
\* The step lists the classification scan is run on.  The scan reads only
\* the first ten characters of the call data, so one step that the encoder
\* or BigInt refuses stands for all of them there.
ScanKinds == {"approve", "send", "sendSame", "bad", "other", "nodata"}
ScanStepLists ==
  {MkSteps(kinds) : kinds \in UNION {[1..m -> ScanKinds] : m \in 0..MaxScanSteps}}

\* The value strings of the quoted steps and what BigInt makes of each.
ValueStrings == {MkStep(kind, i).value : kind \in StepKinds, i \in 1..MaxSteps}
ParsedValues == [string \in ValueStrings |-> StringToBigInt(string)]
\* BigInt(string): the parsed value, or ok = FALSE for the SyntaxError.
BigInt(string) ==
  IF string \in DOMAIN ParsedValues
  THEN ParsedValues[string]
  ELSE StringToBigInt(string)

\* The call data of the catalog's steps, and what main() re-encodes from it.
QuotedCalldataSet == {MkStep(kind, i).data : kind \in StepKinds, i \in 1..MaxSteps}
ReencodedCalldataSet ==
  LET decodable == {d \in {decodeFunctionData(c) : c \in QuotedCalldataSet} : d.ok}
      encoded == {encodeStargateCalldata(d.sendParam, d.fee, customRefundAddress) :
                    d \in decodable} IN
  {e.data : e \in {x \in encoded : x.ok}}
\* Lines 176-180: an error of the decoder is caught and thrown again as an
\* Error whose message is "Failed to decode calldata: " and the message of the
\* cause.
rethrow(result) ==
  IF result.ok THEN result
  ELSE [ok |-> FALSE, message |-> "Failed to decode calldata", cause |-> result.kind]

\* What decodeStargateCalldata makes of that call data, computed once.
DecodedCatalog ==
  [c \in QuotedCalldataSet \cup ReencodedCalldataSet |->
     rethrow(decodeFunctionData(c))]

\* decodeStargateCalldata: the decoder's result, or its error thrown again.
\* The outcome for call data of the catalog is read from the table.
decodeStargateCalldataAnySelector(calldata) ==
  rethrow(decodeFunctionData([calldata EXCEPT !.selector = SendSelector]))
decodeStargateCalldata(calldata) ==
  IF calldata \in DOMAIN DecodedCatalog
  THEN DecodedCatalog[calldata]
  ELSE rethrow(decodeFunctionData(calldata))

\* ---------------------------------------------------------- classification
NullStep == [type |-> "null"]

\* txData.substring(0, 10)
functionSelector(txData) == txData.selector

\* One iteration of the scan over quote.steps (i counts from 0 as in the code).
scanStepFirstSend(acc, step, i) ==
  LET txData == step.data IN
  IF txData = NoData THEN acc
  ELSE IF functionSelector(txData) = ApproveSelector
       THEN [acc EXCEPT !.approvalStep = step]
  ELSE IF functionSelector(txData) = SendSelector /\ acc.sendStep = NullStep
       THEN [acc EXCEPT !.sendStep = step, !.sendStepIndex = i]
  ELSE acc
scanStepFirstApproval(acc, step, i) ==
  LET txData == step.data IN
  IF txData = NoData THEN acc
  ELSE IF functionSelector(txData) = ApproveSelector
       THEN IF acc.approvalStep = NullStep THEN [acc EXCEPT !.approvalStep = step]
            ELSE acc
  ELSE IF functionSelector(txData) = SendSelector
       THEN [acc EXCEPT !.sendStep = step, !.sendStepIndex = i]
  ELSE acc
scanStep(acc, step, i) ==
  LET txData == step.data IN
  IF txData = NoData THEN acc
  ELSE IF functionSelector(txData) = ApproveSelector
       THEN [acc EXCEPT !.approvalStep = step]
  ELSE IF functionSelector(txData) = SendSelector
       THEN [acc EXCEPT !.sendStep = step, !.sendStepIndex = i]
  ELSE acc

scanInit == [approvalStep |-> NullStep, sendStep |-> NullStep, sendStepIndex |-> -1]

\* The scan of steps[1..n].
RECURSIVE scanUpTo(_, _)
scanUpTo(steps, n) ==
  IF n = 0 THEN scanInit
  ELSE scanStep(scanUpTo(steps, n - 1), steps[n], n - 1)

classify(steps) == scanUpTo(steps, Len(steps))

\* ------------------------------------------------------------------ state
VARIABLES
  pc,             \* position of main(): the await it is suspended at
  privateKey,     \* process.env.TEST_PRIVATE_KEY is set
  quoteResponse,  \* route names of quoteResponse.quotes
  stargateQuotes, \* route names kept by the filter
  routeIdx,       \* position of the for-of iterator in stargateQuotes (0: not started)
  quote,          \* the route of the current iteration
  approvalStep, sendStep, sendStepIndex,
  decoded, noopWarning, newCalldata, verifyDecoded, verifyMatch, txValue,
  request,        \* the transaction request handed to client.sendTransaction
  calls,          \* the calls made on the client, in order, with their results
  outcome,        \* per route processed, which of the three console reports ended it
  error,          \* the error caught by the top-level handler
  scanSteps, scanI, scanAcc,  \* the classification scan, step by step
  codecPc, codecCall, codecData, codecResult  \* one call of the codec, step by step

mainVars == <<pc, privateKey, quoteResponse, stargateQuotes, routeIdx, quote,
              approvalStep, sendStep, sendStepIndex, decoded, noopWarning,
              newCalldata, verifyDecoded, verifyMatch, txValue, request, calls,
              outcome, error>>
scanVars == <<scanSteps, scanI, scanAcc>>
codecVars == <<codecPc, codecCall, codecData, codecResult>>
idleVars == <<scanVars, codecVars>>
vars == <<mainVars, idleVars>>

NoValue == [ok |-> FALSE]
NoRequest == [kind |-> "none"]

MainInit ==
  /\ pc = "start"
  /\ privateKey \in BOOLEAN
  /\ quoteResponse = <<>>
  /\ stargateQuotes = <<>>
  /\ routeIdx = 0
  /\ quote = [route |-> <<>>, steps |-> <<>>]
  /\ approvalStep = NullStep
  /\ sendStep = NullStep
  /\ sendStepIndex = -1
  /\ decoded = NoValue
  /\ noopWarning = FALSE
  /\ newCalldata = NoData
  /\ verifyDecoded = NoValue
  /\ verifyMatch = FALSE
  /\ txValue = 0
  /\ request = NoRequest
  /\ calls = <<>>
  /\ outcome = <<>>
  /\ error = "none"

ScanIdle ==
  /\ scanSteps = <<>>
  /\ scanI = 0
  /\ scanAcc = scanInit

CodecIdle ==
  /\ codecPc = "idle"
  /\ codecCall = NoValue
  /\ codecData = NoData
  /\ codecResult = NoValue

\* ----------------------------------------------------------------- helpers
\* The variables declared inside the body of the route loop, and their values
\* outside an iteration.
iteration == <<quote, approvalStep, sendStep, sendStepIndex, decoded, noopWarning,
               newCalldata, verifyDecoded, verifyMatch, txValue, request>>

OutOfScope ==
  /\ quote' = [route |-> <<>>, steps |-> <<>>]
  /\ approvalStep' = NullStep
  /\ sendStep' = NullStep
  /\ sendStepIndex' = -1
  /\ decoded' = NoValue
  /\ noopWarning' = FALSE
  /\ newCalldata' = NoData
  /\ verifyDecoded' = NoValue
  /\ verifyMatch' = FALSE
  /\ txValue' = 0
  /\ request' = NoRequest

\* Control moves to the next await of the same iteration.
Step(position) ==
  /\ pc' = position
  /\ error' = error
  /\ outcome' = outcome

Goto(position) ==
  /\ Step(position)
  /\ UNCHANGED iteration

\* The top-level catch (lines 442-452): report and process.exit(1).
Throw(message) ==
  /\ pc' = "failed"
  /\ error' = message
  /\ outcome' = outcome
  /\ UNCHANGED iteration

\* The per-route report, then the next iteration of the route loop.
Continue(report) ==
  /\ outcome' = Append(outcome, report)
  /\ pc' = "loop"
  /\ error' = error
  /\ OutOfScope

\* The per-route report, then out of the route loop to the last line of main.
Break(report) ==
  /\ outcome' = Append(outcome, report)
  /\ pc' = "done"
  /\ error' = error
  /\ UNCHANGED iteration

\* Line 315: the approval is sent when an approval step was found.
NeedsApprovalUnlessNoSend(found) ==
  found.approvalStep # NullStep /\ found.sendStep # NullStep
needsApproval(found) == found.approvalStep # NullStep

\* Lines 320-328 are outside the inner try: an error of the approval calls
\* reaches the top-level catch.
ApprovalFailureCaught(message) == Continue("RouteFailed")
ApprovalFailure(message) == Throw(message)

\* Lines 332-340: no send step, the route is skipped.
NoSendStepWaits == Goto("checkSend")
NoSendStepThrows == Throw("No send() transaction found")
NoSendStep == Continue("SkippedNoTransfer")

\* Lines 176-180 and 349: the decoder's error is rethrown, outside the inner try.
DecodeFailureCaught == Continue("RouteFailed")
DecodeFailure == Throw("Failed to decode calldata")

\* Lines 426-437: the inner catch reports and continues with the next route.
TransferFailureRetries == Goto("submit")
TransferFailureThrows == Throw("Transaction failed")
TransferFailure == Continue("RouteFailed")

\* Lines 419-425: a receipt arrived, the remaining routes are skipped.
TransferConfirmedOnlyOnSuccess ==
  IF calls'[Len(calls)].result = "success"
  THEN Break("Confirmed")
  ELSE Continue("RouteFailed")
TransferConfirmedContinues == Continue("Confirmed")
TransferConfirmed == Break("Confirmed")

\* ----------------------------------------------------------------- actions
\* Lines 213-268: the key is loaded and the quote is requested.
Start ==
  /\ pc = "start"
  /\ IF ~privateKey
     THEN Throw("TEST_PRIVATE_KEY not found in environment variables")
     ELSE Goto("fetch")
  /\ UNCHANGED <<privateKey, quoteResponse, stargateQuotes, routeIdx, calls, idleVars>>

\* Lines 135-136 and 143: fetch() rejects, or resolves with a response that
\* is ok or not; the body is then read as text or as JSON.
FetchReturns ==
  /\ pc = "fetch"
  /\ \/ Throw("fetch rejected")
     \/ \E ok \in BOOLEAN : Goto(IF ok THEN "json" ELSE "text")
  /\ UNCHANGED <<privateKey, quoteResponse, stargateQuotes, routeIdx, calls, idleVars>>

\* Lines 137-141: the body of a response that is not ok was read, and the
\* error with the status is thrown, or response.text() rejects.
QuoteFails ==
  /\ pc = "text"
  /\ \/ Throw("Failed to fetch Stargate quote")
     \/ Throw("response.text() rejected")
  /\ UNCHANGED <<privateKey, quoteResponse, stargateQuotes, routeIdx, calls, idleVars>>

\* Lines 143-287: the quote arrives and is filtered; or response.json()
\* rejects; or the body has no quotes array, and reading its length throws.
QuoteArrives ==
  /\ pc = "json"
  /\ \/ \E quotes \in QuoteLists :
          LET kept == SelectSeq(quotes, startsWithStargate) IN
          /\ quoteResponse' = quotes
          /\ stargateQuotes' = kept
          /\ IF Len(kept) = 0
             THEN Throw("No Stargate routes found in quote response")
             ELSE Goto("loop")
     \/ /\ \E message \in {"response.json() rejected", "quotes is undefined"} :
             Throw(message)
        /\ UNCHANGED <<quoteResponse, stargateQuotes>>
  /\ UNCHANGED <<privateKey, routeIdx, calls, idleVars>>

\* Lines 290-323: the iterator yields the next route, its steps are classified
\* and the approval step, if there is one, is sent.
BeginRoute ==
  /\ pc = "loop"
  /\ routeIdx < Len(stargateQuotes)
  /\ \E steps \in RouteStepLists :
       LET found == classify(steps) IN
       /\ routeIdx' = routeIdx + 1
       /\ quote' = [route |-> stargateQuotes[routeIdx + 1], steps |-> steps]
       /\ approvalStep' = found.approvalStep
       /\ sendStep' = found.sendStep
       /\ sendStepIndex' = found.sendStepIndex
       /\ IF needsApproval(found)
          THEN /\ request' = [kind |-> "approval",
                              to |-> found.approvalStep.to,
                              data |-> found.approvalStep.data]
               /\ calls' = Append(calls, [route |-> routeIdx + 1, kind |-> "approval",
                                           op |-> "send", result |-> "pending"])
               /\ Step("approvalSend")
          ELSE /\ request' = NoRequest
               /\ calls' = calls
               /\ Step("checkSend")
  /\ UNCHANGED <<privateKey, quoteResponse, stargateQuotes, decoded, noopWarning,
                 newCalldata, verifyDecoded, verifyMatch, txValue, idleVars>>

\* Lines 320-328: sendTransaction for the approval returns a hash, and the
\* wait for its receipt begins, or it throws.
ApprovalSentNotAwaited ==
  /\ pc = "approvalSend"
  /\ \/ /\ calls' = [calls EXCEPT ![Len(calls)].result = "ok"]
        /\ Goto("checkSend")
     \/ /\ calls' = [calls EXCEPT ![Len(calls)].result = "throw"]
        /\ ApprovalFailure("sendTransaction failed")
  /\ UNCHANGED <<privateKey, quoteResponse, stargateQuotes, routeIdx, idleVars>>
ApprovalSent ==
  /\ pc = "approvalSend"
  /\ \/ /\ calls' = Append([calls EXCEPT ![Len(calls)].result = "ok"],
                           [route |-> routeIdx, kind |-> "approval", op |-> "wait",
                            result |-> "pending"])
        /\ Goto("approvalWait")
     \/ /\ calls' = [calls EXCEPT ![Len(calls)].result = "throw"]
        /\ ApprovalFailure("sendTransaction failed")
  /\ UNCHANGED <<privateKey, quoteResponse, stargateQuotes, routeIdx, idleVars>>

\* Lines 328-330: the approval receipt arrives (its status is not read) or the
\* wait throws.
ApprovalReceiptChecksStatus ==
  /\ pc = "approvalWait"
  /\ \/ /\ calls' = [calls EXCEPT ![Len(calls)].result = "success"]
        /\ Goto("checkSend")
     \/ /\ calls' = [calls EXCEPT ![Len(calls)].result = "reverted"]
        /\ Throw("Approval transaction reverted")
     \/ /\ calls' = [calls EXCEPT ![Len(calls)].result = "throw"]
        /\ ApprovalFailure("waitForTransactionReceipt failed")
  /\ UNCHANGED <<privateKey, quoteResponse, stargateQuotes, routeIdx, idleVars>>
ApprovalReceipt ==
  /\ pc = "approvalWait"
  /\ \/ /\ \E status \in {"success", "reverted"} :
             calls' = [calls EXCEPT ![Len(calls)].result = status]
        /\ Goto("checkSend")
     \/ /\ calls' = [calls EXCEPT ![Len(calls)].result = "throw"]
        /\ ApprovalFailure("waitForTransactionReceipt failed")
  /\ UNCHANGED <<privateKey, quoteResponse, stargateQuotes, routeIdx, idleVars>>

\* Lines 332-357: without a send step the route is skipped; otherwise the
\* calldata of the send step is decoded.
CheckSend ==
  /\ pc = "checkSend"
  /\ IF sendStep = NullStep
     THEN NoSendStep
     ELSE LET d == decodeStargateCalldata(sendStep.data) IN
          IF ~d.ok
          THEN DecodeFailure
          ELSE /\ decoded' = d
               /\ Step("override")
               /\ UNCHANGED <<quote, approvalStep, sendStep, sendStepIndex, noopWarning,
                              newCalldata, verifyDecoded, verifyMatch, txValue, request>>
  /\ UNCHANGED <<privateKey, quoteResponse, stargateQuotes, routeIdx, calls, idleVars>>

\* Lines 359-378: the warning when nothing changes, then the re-encoding with
\* the custom refund address, which throws outside the inner try.
OverrideStopsOnNoop ==
  /\ pc = "override"
  /\ LET newRefundAddress == customRefundAddress
         e == encodeStargateCalldata(decoded.sendParam, decoded.fee, newRefundAddress) IN
     IF toLowerCase(decoded.refundAddress) = toLowerCase(newRefundAddress)
     THEN Throw("New refund address is the same as original")
     ELSE /\ noopWarning' = FALSE
          /\ IF ~e.ok
             THEN /\ pc' = "failed"
                  /\ error' = "Integer out of range"
                  /\ outcome' = outcome
                  /\ newCalldata' = newCalldata
             ELSE /\ newCalldata' = e.data
                  /\ Step("verify")
          /\ UNCHANGED <<quote, approvalStep, sendStep, sendStepIndex, decoded,
                         verifyDecoded, verifyMatch, txValue, request>>
  /\ UNCHANGED <<privateKey, quoteResponse, stargateQuotes, routeIdx, calls, idleVars>>
Override ==
  /\ pc = "override"
  /\ LET newRefundAddress == customRefundAddress
         e == encodeStargateCalldata(decoded.sendParam, decoded.fee, newRefundAddress) IN
     /\ noopWarning' =
          (toLowerCase(decoded.refundAddress) = toLowerCase(newRefundAddress))
     /\ IF ~e.ok
        THEN /\ pc' = "failed"
             /\ error' = "Integer out of range"
             /\ outcome' = outcome
             /\ newCalldata' = newCalldata
        ELSE /\ newCalldata' = e.data
             /\ Step("verify")
     /\ UNCHANGED <<quote, approvalStep, sendStep, sendStepIndex, decoded,
                    verifyDecoded, verifyMatch, txValue, request>>
  /\ UNCHANGED <<privateKey, quoteResponse, stargateQuotes, routeIdx, calls, idleVars>>

\* Lines 380-390: the new calldata is decoded and the comparison of its refund
\* address with the custom one is printed.
Verify ==
  /\ pc = "verify"
  /\ LET v == decodeStargateCalldata(newCalldata) IN
     IF ~v.ok
     THEN DecodeFailure
     ELSE /\ verifyDecoded' = v
          /\ verifyMatch' =
               (toLowerCase(v.refundAddress) = toLowerCase(customRefundAddress))
          /\ Step("submit")
          /\ UNCHANGED <<quote, approvalStep, sendStep, sendStepIndex, decoded,
                         noopWarning, newCalldata, txValue, request>>
  /\ UNCHANGED <<privateKey, quoteResponse, stargateQuotes, routeIdx, calls, idleVars>>

\* Lines 392-412: the value is parsed and the transaction is sent.
SubmitTransfer ==
  /\ pc = "submit"
  /\ LET parsed == BigInt(sendStep.value) IN
     IF ~parsed.ok
     THEN Throw("Cannot convert to a BigInt") /\ calls' = calls
     ELSE /\ txValue' = parsed.val
          /\ request' = [kind |-> "transfer", to |-> sendStep.to,
                         value |-> parsed.val, data |-> newCalldata]
          /\ calls' = Append(calls, [route |-> routeIdx, kind |-> "transfer",
                                     op |-> "send", result |-> "pending"])
          /\ Step("txSend")
          /\ UNCHANGED <<quote, approvalStep, sendStep, sendStepIndex, decoded,
                         noopWarning, newCalldata, verifyDecoded, verifyMatch>>
  /\ UNCHANGED <<privateKey, quoteResponse, stargateQuotes, routeIdx, idleVars>>

\* Lines 408-419 and 426-437: sendTransaction returns a hash, and the wait for
\* the receipt begins, or it throws into the inner catch.
TransferSent ==
  /\ pc = "txSend"
  /\ \/ /\ calls' = Append([calls EXCEPT ![Len(calls)].result = "ok"],
                           [route |-> routeIdx, kind |-> "transfer", op |-> "wait",
                            result |-> "pending"])
        /\ Goto("txWait")
     \/ /\ calls' = [calls EXCEPT ![Len(calls)].result = "throw"]
        /\ TransferFailure
  /\ UNCHANGED <<privateKey, quoteResponse, stargateQuotes, routeIdx, idleVars>>

\* Lines 419-437: the receipt arrives, with either status, or the wait throws
\* into the inner catch.
TransferReceipt ==
  /\ pc = "txWait"
  /\ \/ /\ \E status \in {"success", "reverted"} :
             calls' = [calls EXCEPT ![Len(calls)].result = status]
        /\ TransferConfirmed
     \/ /\ calls' = [calls EXCEPT ![Len(calls)].result = "throw"]
        /\ TransferFailure
  /\ UNCHANGED <<privateKey, quoteResponse, stargateQuotes, routeIdx, idleVars>>

\* Lines 290 and 441: the iterator is exhausted.
LoopExitThrows ==
  /\ pc = "loop"
  /\ routeIdx = Len(stargateQuotes)
  /\ Throw("No route succeeded")
  /\ UNCHANGED <<privateKey, quoteResponse, stargateQuotes, routeIdx, calls, idleVars>>
LoopExit ==
  /\ pc = "loop"
  /\ routeIdx = Len(stargateQuotes)
  /\ Goto("done")
  /\ UNCHANGED <<privateKey, quoteResponse, stargateQuotes, routeIdx, calls, idleVars>>

Init == MainInit /\ ScanIdle /\ CodecIdle

Next ==
  \/ Start
  \/ FetchReturns
  \/ QuoteFails
  \/ QuoteArrives
  \/ BeginRoute
  \/ ApprovalSent
  \/ ApprovalReceipt
  \/ CheckSend
  \/ Override
  \/ Verify
  \/ SubmitTransfer
  \/ TransferSent
  \/ TransferReceipt
  \/ LoopExit

Spec == Init /\ [][Next]_vars

\* Every await of main() is eventually resumed, with a value or an error, and
\* the synchronous code between two awaits runs to completion.
FairSpec == Spec /\ WF_vars(Next)

\* ------------------------------------------- the classification scan alone
\* Lines 296-312 on step lists of up to MaxScanSteps steps, one iteration of
\* the for loop per step of the model.
ScanInit ==
  /\ MainInit
  /\ privateKey = TRUE
  /\ scanSteps \in ScanStepLists
  /\ scanI = 0
  /\ scanAcc = scanInit
  /\ CodecIdle

ScanNext ==
  /\ scanI < Len(scanSteps)
  /\ scanAcc' = scanStep(scanAcc, scanSteps[scanI + 1], scanI)
  /\ scanI' = scanI + 1
  /\ UNCHANGED <<mainVars, scanSteps, codecVars>>

SpecClassify == ScanInit /\ [][ScanNext]_vars

\* ------------------------------------------------------- the codec alone
\* Lines 153-207 as pure functions: a call is encoded and the call data
\* decoded, or call data of another function is decoded.
CodecByteStrings ==
  {<<>>} \cup UNION {{[i \in 1..n |-> MaxByte], [i \in 1..n |-> i % Base]} :
                      n \in 1..MaxBytesLen}

\* The arguments of send(): integers at both ends of their range, byte
\* strings of every length from zero to more than a word, a refund address as
\* viem returns it or as the literal of main() spells it.
TransferCalls ==
  [sendParam : [dstEid : {0, Uint32Max},
                to : {1, WordMax},
                amountLD : {0, WordMax},
                minAmountLD : {0, WordMax - 1},
                extraOptions : CodecByteStrings,
                composeMsg : CodecByteStrings,
                oftCmd : CodecByteStrings],
   fee : [nativeFee : {0, WordMax}, lzTokenFee : {2}],
   refundAddress : {checksumAddress(0), checksumAddress(AddressMod - 1),
                    customRefundAddress}]

\* Call data that does not start with the selector of send(): another
\* function's selector, or fewer than four bytes, before any body, a
\* well-formed send() body included.
ForeignCalldata ==
  {[selector |-> s, body |-> b] :
     s \in {ApproveSelector, OtherSelector, ""},
     b \in {<<>>, encodeWord(1)}
             \cup {QuotedCalldata(i, QuotedRefund).body : i \in 1..2}}

CodecInit ==
  /\ MainInit
  /\ privateKey = TRUE
  /\ ScanIdle
  /\ codecResult = NoValue
  /\ \/ /\ codecPc = "call"
        /\ codecCall \in TransferCalls
        /\ codecData = NoData
     \/ /\ codecPc = "data"
        /\ codecCall = NoValue
        /\ codecData \in ForeignCalldata

\* Lines 186-207.
CodecEncode ==
  /\ codecPc = "call"
  /\ LET e == encodeStargateCalldata(codecCall.sendParam, codecCall.fee,
                                     codecCall.refundAddress) IN
     IF e.ok
     THEN codecData' = e.data /\ codecPc' = "data"
     ELSE codecData' = codecData /\ codecPc' = "thrown"
  /\ UNCHANGED <<mainVars, scanVars, codecCall, codecResult>>

\* Lines 153-181.
CodecDecode ==
  /\ codecPc = "data"
  /\ codecResult' = decodeStargateCalldata(codecData)
  /\ codecPc' = IF codecResult'.ok THEN "decoded" ELSE "thrown"
  /\ UNCHANGED <<mainVars, scanVars, codecCall, codecData>>

CodecNext == CodecEncode \/ CodecDecode

SpecCodec == CodecInit /\ [][CodecNext]_vars

\* ================================================================== claims
\* Helpers over the state.
Min(S) == CHOOSE x \in S : \A y \in S : x <= y
Max(S) == CHOOSE x \in S : \A y \in S : x >= y

\* The positions (from 1) of the steps of a list that carry a selector.
StepsWith(steps, selector) ==
  {i \in 1..Len(steps) : steps[i].data # NoData /\ steps[i].data.selector = selector}

\* An iteration of the route loop has begun and its variables are in scope.
InRoute == quote.route # <<>>

\* The calls made for route r.
CallsOf(r) == {i \in 1..Len(calls) : calls[i].route = r}
Returned(c) == c.result \in {"success", "reverted"}

\* C1: the calls on the client are made for routes in the order of the list,
\* the route being processed is the next one of the list, and a transfer
\* whose wait returned a receipt is the last call of the run: the loop has
\* ended at that route.
C1_InOrderStopAtConfirmed ==
  /\ \A i, j \in 1..Len(calls) : i < j => calls[i].route <= calls[j].route
  /\ InRoute => /\ routeIdx \in 1..Len(stargateQuotes)
                /\ quote.route = stargateQuotes[routeIdx]
                /\ \A i \in 1..Len(calls) : calls[i].route <= routeIdx
  /\ Len(outcome) \in {routeIdx - 1, routeIdx}
  /\ \A i \in 1..Len(calls) :
       (calls[i].kind = "transfer" /\ calls[i].op = "wait" /\ Returned(calls[i]))
         => /\ i = Len(calls)
            /\ pc = "done"
            /\ routeIdx = calls[i].route
            /\ outcome[routeIdx] = "Confirmed"

\* C1 witness: the first of several routes was confirmed and the run is over.
C1_Witness ==
  /\ pc = "done"
  /\ routeIdx = 1
  /\ Len(stargateQuotes) > 1
  /\ calls # <<>>
  /\ calls[Len(calls)].kind = "transfer"
  /\ Returned(calls[Len(calls)])

\* C2: when the transfer's sendTransaction or its wait throws, the step taken
\* reports RouteFailed for that route and returns to the head of the loop with
\* no error raised and no further call made; at the head of the loop with a
\* route left, the next route can begin; no route has two transfer sends.
C2_TransferFailureIsolated ==
  /\ [][(pc \in {"txSend", "txWait"} /\ calls'[Len(calls)].result = "throw")
          => /\ pc' = "loop"
             /\ outcome' = Append(outcome, "RouteFailed")
             /\ error' = error
             /\ routeIdx' = routeIdx
             /\ Len(calls') = Len(calls)]_vars
  /\ [](pc = "loop" /\ routeIdx < Len(stargateQuotes) => ENABLED BeginRoute)
  /\ [](\A i, j \in 1..Len(calls) :
          (calls[i].kind = "transfer" /\ calls[j].kind = "transfer"
           /\ calls[i].op = "send" /\ calls[j].op = "send" /\ i # j)
            => calls[i].route # calls[j].route)

\* C2 witness: the first route's transfer failed and the second route is
\* being processed.
C2_Witness ==
  /\ outcome = <<"RouteFailed">>
  /\ routeIdx = 2
  /\ pc = "checkSend"
  /\ \E i \in CallsOf(1) : calls[i].kind = "transfer" /\ calls[i].result = "throw"

\* C3 as stated, for a route that has a send step: an approval call that
\* threw leaves the run alive and its route reported as RouteFailed.
C3_Original ==
  \A i \in 1..Len(calls) :
    (calls[i].kind = "approval" /\ calls[i].result = "throw" /\ sendStep # NullStep)
      => /\ pc # "failed"
         /\ Len(outcome) >= calls[i].route
         /\ outcome[calls[i].route] = "RouteFailed"

\* C3 amended: an approval call that threw is the last call of the run: the
\* run has failed at that route with no report for it, no transfer sent for
\* it and no later route begun.
C3_ApprovalFailureFatal ==
  \A i \in 1..Len(calls) :
    (calls[i].kind = "approval" /\ calls[i].result = "throw")
      => /\ pc = "failed"
         /\ error \in {"sendTransaction failed", "waitForTransactionReceipt failed"}
         /\ i = Len(calls)
         /\ routeIdx = calls[i].route
         /\ Len(outcome) = routeIdx - 1

\* C3 witness: the approval wait of the first of two routes threw.
C3_Witness ==
  /\ pc = "failed"
  /\ routeIdx = 1
  /\ Len(stargateQuotes) = 2
  /\ calls # <<>>
  /\ calls[Len(calls)] = [route |-> 1, kind |-> "approval", op |-> "wait",
                          result |-> "throw"]
  /\ sendStep # NullStep

\* C4: when the calldata of the send step does not decode, the step taken
\* ends the run in the top-level handler with the decoder's error, with no
\* call made and no route report; and nothing happens after a failed run.
C4_DecodeFailureFatal ==
  [][/\ (pc = "checkSend" /\ sendStep # NullStep
         /\ ~decodeFunctionData(sendStep.data).ok)
          => /\ pc' = "failed"
             /\ error' = "Failed to decode calldata"
             /\ calls' = calls
             /\ outcome' = outcome
             /\ routeIdx' = routeIdx
     /\ pc = "failed" => FALSE]_vars

\* C4 witness: the first of two routes failed to decode; no transfer was sent.
C4_Witness ==
  /\ pc = "failed"
  /\ error = "Failed to decode calldata"
  /\ routeIdx = 1
  /\ Len(stargateQuotes) = 2
  /\ \A i \in 1..Len(calls) : calls[i].kind # "transfer"

\* C6: the transaction handed to the client for a transfer goes to the target
\* and carries the value of the route's send step; its calldata is the
\* encoding of the sendParam and fee decoded from the send step's calldata
\* with the custom refund address, and decodes to that sendParam, that fee and
\* the custom refund address.
C6_OnlyRefundDiffers ==
  request.kind = "transfer"
    => LET original == decodeStargateCalldata(sendStep.data)
           submitted == decodeStargateCalldata(request.data) IN
       /\ sendStep = quote.steps[sendStepIndex + 1]
       /\ original.ok /\ submitted.ok
       /\ decoded = original
       /\ request.data = encodeStargateCalldata(original.sendParam, original.fee,
                                                customRefundAddress).data
       /\ submitted.sendParam = original.sendParam
       /\ submitted.fee = original.fee
       /\ submitted.refundAddress.hex = customRefundAddress.hex
       /\ request.to = sendStep.to
       /\ BigInt(sendStep.value).ok
       /\ request.value = BigInt(sendStep.value).val

\* C6 witness: a transfer with non-empty byte strings, a quoted refund
\* address other than the custom one and a value string with white space
\* around the digits is with the client.
C6_Witness ==
  /\ pc = "txSend"
  /\ request.kind = "transfer"
  /\ sendStep.value = <<12, 49, 50, 32>>
  /\ request.value = 12
  /\ decoded.sendParam.extraOptions # <<>>
  /\ decoded.sendParam.amountLD = WordMax
  /\ decoded.refundAddress.hex # customRefundAddress.hex
  /\ request.data # sendStep.data

\* C7 as stated: at the end of the scan the send step is the first step, in
\* step order, that carries the send selector.
C7_Original ==
  scanI = Len(scanSteps)
    => LET S == StepsWith(scanSteps, SendSelector) IN
       S # {} => /\ scanAcc.sendStepIndex = Min(S) - 1
                 /\ scanAcc.sendStep = scanSteps[Min(S)]

\* C7 amended: after each iteration of the scan the send step is the last
\* step so far, in step order, that carries the send selector, with its
\* index; there is none when no step so far carries it.
C7_LastSendWins ==
  LET S == {i \in StepsWith(scanSteps, SendSelector) : i <= scanI} IN
  IF S = {}
  THEN scanAcc.sendStep = NullStep /\ scanAcc.sendStepIndex = -1
  ELSE scanAcc.sendStepIndex = Max(S) - 1 /\ scanAcc.sendStep = scanSteps[Max(S)]

\* C7 witness: the steps [approve, unrelated, send, send] have been scanned
\* and the send step is the one at index 3.
C7_Witness ==
  /\ scanSteps = MkSteps(<<"approve", "other", "send", "send">>)
  /\ scanI = 4
  /\ scanAcc.sendStepIndex = 3
  /\ scanAcc.approvalStep = scanSteps[1]

\* C8 as stated: the approval handed to the client is the first step of the
\* route, in step order, that carries the approve selector.
C8_Original ==
  request.kind = "approval"
    => LET A == StepsWith(quote.steps, ApproveSelector) IN
       /\ A # {}
       /\ request.to = quote.steps[Min(A)].to
       /\ request.data = quote.steps[Min(A)].data

\* C8 amended: the approval step recorded for a route is the last step, in
\* step order, that carries the approve selector, and the approval handed to
\* the client is that step's transaction.
C8_LastApprovalWins ==
  /\ InRoute =>
       LET A == StepsWith(quote.steps, ApproveSelector) IN
       IF A = {} THEN approvalStep = NullStep
       ELSE approvalStep = quote.steps[Max(A)]
  /\ request.kind = "approval"
       => /\ approvalStep # NullStep
          /\ request.to = approvalStep.to
          /\ request.data = approvalStep.data

\* C8 witness: a route with two approve-shaped steps has its approval with
\* the client.
C8_Witness ==
  /\ pc = "approvalWait"
  /\ request.kind = "approval"
  /\ Cardinality(StepsWith(quote.steps, ApproveSelector)) = 2
  /\ request.data = quote.steps[2].data

\* C9 as stated: while a route with no step carrying the send selector is
\* processed, no transfer is sent for it and the run does not fail.
C9_Original ==
  (InRoute /\ StepsWith(quote.steps, SendSelector) = {})
    => /\ pc # "failed"
       /\ \A i \in CallsOf(routeIdx) : calls[i].kind # "transfer"

\* C9 amended: for a route with no step carrying the send selector no
\* transfer is ever sent; the run fails in it only when a call of its approval
\* threw; otherwise, at the check for the send step, the step taken reports
\* SkippedNoTransfer and returns to the head of the loop with no error and no
\* call made.
C9_SkippedUnlessApprovalThrows ==
  /\ []((InRoute /\ StepsWith(quote.steps, SendSelector) = {})
          => /\ \A i \in CallsOf(routeIdx) : calls[i].kind # "transfer"
             /\ pc \in {"approvalSend", "approvalWait", "checkSend", "failed"}
             /\ pc = "failed"
                  => /\ StepsWith(quote.steps, ApproveSelector) # {}
                     /\ calls[Len(calls)].route = routeIdx
                     /\ calls[Len(calls)].kind = "approval"
                     /\ calls[Len(calls)].result = "throw")
  /\ [][(pc = "checkSend" /\ StepsWith(quote.steps, SendSelector) = {})
          => /\ pc' = "loop"
             /\ outcome' = Append(outcome, "SkippedNoTransfer")
             /\ error' = error
             /\ calls' = calls
             /\ routeIdx' = routeIdx]_vars

\* C9 witness: the first route was skipped for want of a send step and the
\* second route is being processed.
C9_Witness ==
  /\ outcome = <<"SkippedNoTransfer">>
  /\ routeIdx = 2
  /\ InRoute
  /\ CallsOf(1) = {}

\* C10 as stated: for a route with no step carrying the send selector no call
\* at all is made on the client.
C10_Original ==
  (InRoute /\ StepsWith(quote.steps, SendSelector) = {})
    => /\ CallsOf(routeIdx) = {}
       /\ pc \notin {"approvalSend", "approvalWait"}

\* C10 amended: a route with no step carrying the send selector never has a
\* transfer sent, but if it has a step carrying the approve selector its
\* approval is sent first: the check for the send step is reached only after
\* the approval's sendTransaction and wait have returned, and these are the
\* only calls of the route; without such a step no call is made for it.
C10_ApprovalBeforeSkip ==
  (InRoute /\ StepsWith(quote.steps, SendSelector) = {})
    => LET mine == CallsOf(routeIdx) IN
       /\ \A i \in mine : calls[i].kind = "approval"
       /\ IF StepsWith(quote.steps, ApproveSelector) = {}
          THEN mine = {} /\ pc = "checkSend"
          ELSE /\ mine # {}
               /\ calls[Min(mine)].op = "send"
               /\ pc \in {"approvalSend", "approvalWait", "checkSend", "failed"}
               /\ pc = "checkSend"
                    => /\ Cardinality(mine) = 2
                       /\ calls[Min(mine)].result = "ok"
                       /\ calls[Max(mine)].op = "wait"
                       /\ Returned(calls[Max(mine)])

\* C10 witness: the first route, with an approval step and no send step, was
\* skipped after its approval was sent and its receipt awaited.
C10_Witness ==
  /\ outcome = <<"SkippedNoTransfer">>
  /\ Len(calls) = 2
  /\ calls[1] = [route |-> 1, kind |-> "approval", op |-> "send", result |-> "ok"]
  /\ calls[2].op = "wait"
  /\ pc = "loop"

\* C11: in a route with an approval step, the transfer is handed to
\* sendTransaction only after the approval's sendTransaction returned a hash
\* and its waitForTransactionReceipt returned a receipt: every approval call
\* of the route is earlier in the log than the route's transfer send and has
\* returned, and from the decoding on the route's log starts with both.
C11_TransferAfterApproval ==
  /\ \A i, j \in 1..Len(calls) :
       (calls[i].kind = "transfer" /\ calls[j].kind = "approval"
        /\ calls[i].route = calls[j].route)
         => /\ j < i
            /\ calls[j].op = "send" => calls[j].result = "ok"
            /\ calls[j].op = "wait" => Returned(calls[j])
  /\ (approvalStep # NullStep
      /\ pc \in {"override", "verify", "submit", "txSend", "txWait"})
       => \E j \in CallsOf(routeIdx) :
            /\ j + 1 \in CallsOf(routeIdx)
            /\ calls[j].kind = "approval" /\ calls[j].op = "send"
            /\ calls[j].result = "ok"
            /\ calls[j + 1].kind = "approval" /\ calls[j + 1].op = "wait"
            /\ Returned(calls[j + 1])
            /\ \A i \in CallsOf(routeIdx) : calls[i].kind = "transfer" => i > j + 1

\* C11 witness: the transfer of a route with an approval step is at
\* sendTransaction, after the two approval calls.
C11_Witness ==
  /\ pc = "txSend"
  /\ approvalStep # NullStep
  /\ Len(calls) = 3
  /\ calls[3].kind = "transfer"

\* C12: when every route of the list ended with the RouteFailed or the
\* SkippedNoTransfer report, the run is at the head of the loop or completed,
\* with no error caught, and the step that leaves the exhausted loop completes
\* the run: it raises no error, adds no report and makes no call.
C12_ExhaustedRunCompletes ==
  /\ [](( /\ stargateQuotes # <<>>
          /\ Len(outcome) = Len(stargateQuotes)
          /\ \A r \in 1..Len(outcome) :
               outcome[r] \in {"RouteFailed", "SkippedNoTransfer"} )
         => /\ pc \in {"loop", "done"}
            /\ error = "none"
            /\ routeIdx = Len(stargateQuotes))
  /\ [][( /\ pc = "loop"
          /\ routeIdx = Len(stargateQuotes) )
         => /\ pc' = "done"
            /\ error' = "none"
            /\ outcome' = outcome
            /\ calls' = calls]_vars

\* C12 witness: a run of two routes, one failed and one skipped, completed.
C12_Witness ==
  /\ pc = "done"
  /\ error = "none"
  /\ outcome = <<"RouteFailed", "SkippedNoTransfer">>

\* C13: a response that is not 2xx aborts the run once its body was read; a
\* JSON body either aborts the run or enters the loop with a route whose name
\* begins with stargate/, and it aborts when the list has no such route (an
\* empty list included).  Every error raised before the loop leaves the run
\* aborted with no route begun and no call made on the client, and no call is
\* ever made in a run whose quote had no stargate/ route.
C13_QuoteFailureAborts ==
  /\ [][pc = "text"
          => /\ pc' = "failed"
             /\ error' # "none"
             /\ calls' = <<>>
             /\ routeIdx' = 0]_vars
  /\ [][pc = "json"
          => IF \A i \in 1..Len(quoteResponse') : quoteResponse'[i][1] # "stargate"
             THEN /\ pc' = "failed"
                  /\ error' # "none"
                  /\ calls' = <<>>
                  /\ routeIdx' = 0
             ELSE pc' = "loop" /\ error' = "none"]_vars
  /\ [](error \in {"fetch rejected", "response.text() rejected",
                   "Failed to fetch Stargate quote",
                   "response.json() rejected", "quotes is undefined",
                   "No Stargate routes found in quote response"}
          => /\ pc = "failed"
             /\ calls = <<>>
             /\ outcome = <<>>
             /\ routeIdx = 0)
  /\ []((calls # <<>> \/ routeIdx > 0)
          => \E i \in 1..Len(quoteResponse) : quoteResponse[i][1] = "stargate")

\* C13 witness: the quote listed a route, none of the stargate/ kind, and the
\* run was aborted with no call made.
C13_Witness ==
  /\ pc = "failed"
  /\ quoteResponse # <<>>
  /\ stargateQuotes = <<>>
  /\ error = "No Stargate routes found in quote response"
  /\ calls = <<>>

\* C14: encoding a well-formed call never throws, decoding the result never
\* throws, and the decoded call equals the call on every field: the transfer
\* parameters (the byte strings of length zero and the largest integers
\* included), the fee, and the 20-byte value of the refund account.
C14_RoundTrip ==
  /\ codecCall # NoValue => codecPc # "thrown"
  /\ (codecPc = "decoded" /\ codecCall # NoValue)
       => /\ codecResult.sendParam = codecCall.sendParam
          /\ codecResult.fee = codecCall.fee
          /\ codecResult.refundAddress.hex = codecCall.refundAddress.hex
          /\ DOMAIN codecResult = {"ok", "sendParam", "fee", "refundAddress"}

\* C14 witness: a call with three empty byte strings and the largest amount
\* and fee was encoded and decoded.
C14_Witness ==
  /\ codecPc = "decoded"
  /\ codecCall # NoValue
  /\ codecCall.sendParam.extraOptions = <<>>
  /\ codecCall.sendParam.composeMsg = <<>>
  /\ codecCall.sendParam.oftCmd = <<>>
  /\ codecCall.sendParam.amountLD = WordMax
  /\ codecCall.fee.nativeFee = WordMax
  /\ codecResult.sendParam.amountLD = WordMax

C17_AtMostOncePerRoute ==
  /\ routeIdx <= Len(stargateQuotes)
  /\ Len(outcome) <= routeIdx
  /\ \A i, j \in 1..Len(calls) :
       i < j => /\ calls[i].route <= calls[j].route
                /\ calls[i].route \in 1..routeIdx
                /\ calls[j].route \in 1..routeIdx
  /\ \A r \in 1..Len(stargateQuotes) : \A kind \in {"approval", "transfer"} :
       Cardinality({i \in CallsOf(r) :
                      calls[i].kind = kind /\ calls[i].op = "send"}) <= 1
  /\ Cardinality({i \in 1..Len(calls) :
                    calls[i].kind = "transfer" /\ calls[i].op = "send"})
       <= Len(stargateQuotes)
  /\ Cardinality({i \in 1..Len(calls) :
                    calls[i].kind = "transfer" /\ calls[i].op = "wait"
                    /\ Returned(calls[i])}) <= 1

\* C17 witness: each of two routes had an approval and a transfer sent, the
\* first transfer failed and the second was confirmed.
C17_Witness ==
  /\ pc = "done"
  /\ Len(stargateQuotes) = 2
  /\ outcome = <<"RouteFailed", "Confirmed">>
  /\ \A r \in 1..2 : \A kind \in {"approval", "transfer"} :
       \E i \in CallsOf(r) : calls[i].kind = kind /\ calls[i].op = "send"

\* C18: the step in which the transfer's waitForTransactionReceipt returns a
\* receipt ends the loop whatever the status of the receipt: the run is
\* completed at that route with no further call, nothing follows a completed
\* run, and a reverted receipt in the log is its last entry.
C18_AnyReceiptStopsTheLoop ==
  /\ [][( /\ pc = "txWait"
          /\ calls'[Len(calls)].result \in {"success", "reverted"} )
         => /\ pc' = "done"
            /\ routeIdx' = routeIdx
            /\ Len(calls') = Len(calls)
            /\ error' = error]_vars
  /\ [][pc # "done"]_vars
  /\ [](\A i \in 1..Len(calls) :
          (calls[i].kind = "transfer" /\ calls[i].result = "reverted")
            => /\ i = Len(calls)
               /\ pc = "done"
               /\ routeIdx = calls[i].route)

\* C18 witness: the receipt of the first route's transfer was reverted and
\* the run is completed with a route left in the list.
C18_Witness ==
  /\ pc = "done"
  /\ calls # <<>>
  /\ calls[Len(calls)].kind = "transfer"
  /\ calls[Len(calls)].result = "reverted"
  /\ routeIdx < Len(stargateQuotes)

\* The approval receipt of the route in progress was returned with the
\* reverted status.
ApprovalReverted ==
  \E i \in CallsOf(routeIdx) :
    calls[i].kind = "approval" /\ calls[i].op = "wait" /\ calls[i].result = "reverted"

C20_RunTerminates ==
  /\ <>(pc \in {"done", "failed"})
  /\ [][routeIdx' \in {routeIdx, routeIdx + 1}]_vars
  /\ [](routeIdx <= Len(stargateQuotes))

\* C20 witness: a run over the longest list completed after every route of
\* the list was processed.
C20_Witness ==
  /\ pc = "done"
  /\ Len(stargateQuotes) = MaxQuotes
  /\ routeIdx = MaxQuotes
  /\ Len(outcome) = MaxQuotes

====
